---- MODULE Spec2Model ----
(***************************************************************************)
(* Model of graphiti_core/llm_client/openai_compatible_client.py:          *)
(* OpenAICompatibleClient._generate_response (one attempt: sanitize,       *)
(* build the request, call the transport, normalise the completion) and    *)
(* OpenAICompatibleClient.generate_response (the bounded retry loop).      *)
(*                                                                         *)
(* Strings are sequences of one-character strings, so that lower(),        *)
(* substring search, sanitizing and json.loads are computed, not assumed.  *)
(***************************************************************************)
EXTENDS Integers, Sequences, FiniteSets, TLC

VARIABLES
    invs,            \* the invocations of generate_response that exist
    model,           \* self.model of the client each invocation runs on
    response_model,  \* whether the caller passed a response_model
    messages,        \* the caller's list object `messages`
    supplied,        \* history: the conversation as the caller passed it
    retry_count,     \* local retry_count of generate_response
    last_error,      \* local last_error of generate_response
    pc,              \* position of the invocation
    sent,            \* history: the outbound requests handed to the transport
    outcomes,        \* history: what the transport answered, per attempt
    attempts,        \* history: how each _generate_response call ended
    result,          \* how the invocation ended
    \* graph_data_operations.py: retrieve_episodes, clear_data
    episodes,        \* the Episodic nodes stored in the graph
    reference_time,  \* argument reference_time
    last_n,          \* argument last_n
    records,         \* result.records the database produced for the call
    returned,        \* the list retrieve_episodes returned
    epc,             \* position of the retrieve_episodes call
    calls,           \* calls of retrieve_episodes made so far
    clears,          \* calls of clear_data made so far
    \* graph_data_operations.py: build_indices_and_constraints
    indices,         \* the indices the database holds
    pending,         \* queries of the running gather not yet executed
    builds,          \* completed calls of build_indices_and_constraints
    index_error,     \* whether a query of a call raised
    first_indices,   \* history: the indices when the first call completed
    bpc              \* position of the build_indices_and_constraints call

client_vars == <<invs, model, response_model, messages, supplied, retry_count,
                 last_error, pc, sent, outcomes, attempts, result>>

episode_vars == <<episodes, reference_time, last_n, records, returned, epc,
                  calls, clears>>

index_vars == <<indices, pending, builds, index_error, first_indices, bpc>>

vars == <<client_vars, episode_vars, index_vars>>

-----------------------------------------------------------------------------
(* Bounds of the model *)

\* longest conversation a caller passes
MaxMsgs == 2
\* completion texts: every string over ShortAlphabet up to this length,
\* besides the longer SampleTexts
MaxTextLen == 1
\* timestamps (valid_at, created_at, reference_time) are 1..MaxTime
MaxTime == 3
\* largest last_n a caller passes
MaxLastN == 3
\* calls of build_indices_and_constraints in a run
MaxBuilds == 2
\* calls of retrieve_episodes in a run
MaxCalls == 2
\* calls of clear_data in a run
MaxClears == 1

-----------------------------------------------------------------------------
(* Program constants *)

MAX_RETRIES == 2

DEFAULT_MODEL == <<"d", "e", "e", "p", "s", "e", "e", "k">>

\* The marker tested by `'deepseek' in (...).lower()`
Marker == <<"d", "e", "e", "p", "s", "e", "e", "k">>

\* Python's None where a string is expected (self.model, message.content)
None == <<"<None>">>

-----------------------------------------------------------------------------
(* String helpers *)

\* str.lower() on one character
LowerChar(c) ==
    CASE c = "D" -> "d"
      [] c = "E" -> "e"
      [] c = "P" -> "p"
      [] c = "S" -> "s"
      [] c = "K" -> "k"
      [] c = "G" -> "g"
      [] c = "T" -> "t"
      [] c = "V" -> "v"
      [] OTHER -> c

\* str.lower()
Lower(s) == [i \in 1..Len(s) |-> LowerChar(s[i])]

\* `needle in hay` for strings
Contains(hay, needle) ==
    \E i \in 1..(Len(hay) - Len(needle) + 1) :
        SubSeq(hay, i, i + Len(needle) - 1) = needle

\* truthiness of `self.model` in `self.model or DEFAULT_MODEL`
Truthy(m) == m # None /\ m # <<>>

\* `self.model or DEFAULT_MODEL`
ModelOrDefault(m) == IF Truthy(m) THEN m ELSE DEFAULT_MODEL

\* variant of IsDeepseek: the marker looked for in self.model itself
IsDeepseekWithoutDefault(m) == Truthy(m) /\ Contains(Lower(m), Marker)

\* is_deepseek = 'deepseek' in (self.model or DEFAULT_MODEL).lower()
IsDeepseek(m) == Contains(Lower(ModelOrDefault(m)), Marker)

-----------------------------------------------------------------------------
(* Message Sanitizer: LLMClient._clean_input, called at line 93 *)

\* characters of message contents and error texts; "<NUL>" stands for a
\* control character and "<ZWSP>" for a zero-width character
Stripped == {"<NUL>", "<ZWSP>"}

KeepChar(c) == c \notin Stripped

\* _clean_input(content): the content without control / zero-width characters
CleanInput(content) == SelectSeq(content, KeepChar)

-----------------------------------------------------------------------------
(* Request Builder: lines 91-97 and 104-109 *)

\* for m in messages: m.content = self._clean_input(m.content)
\* the list object after the loop: every message's content overwritten
CleanedInPlace(msgs) ==
    [i \in 1..Len(msgs) |->
        [role |-> msgs[i].role, content |-> CleanInput(msgs[i].content)]]

\* variant of OpenAIMessages: the elif branch for 'system' missing
RECURSIVE OpenAIMessagesWithoutSystem(_)
OpenAIMessagesWithoutSystem(msgs) ==
    IF msgs = <<>> THEN <<>>
    ELSE LET m == Head(msgs)
             c == CleanInput(m.content)
             rest == OpenAIMessagesWithoutSystem(Tail(msgs))
         IN  IF m.role = "user"
             THEN <<[role |-> "user", content |-> c]>> \o rest
             ELSE rest

\* the loop of lines 92-97, message by message: openai_messages
RECURSIVE OpenAIMessages(_)
OpenAIMessages(msgs) ==
    IF msgs = <<>> THEN <<>>
    ELSE LET m == Head(msgs)
             c == CleanInput(m.content)
             rest == OpenAIMessages(Tail(msgs))
         IN  IF m.role = "user"
             THEN <<[role |-> "user", content |-> c]>> \o rest
             ELSE IF m.role = "system"
                  THEN <<[role |-> "system", content |-> c]>> \o rest
                  ELSE rest

\* completion_params (temperature and max_tokens are fixed per client)
CompletionParams(m, msgs) ==
    [model |-> ModelOrDefault(m), messages |-> OpenAIMessages(msgs)]

-----------------------------------------------------------------------------
(* json.loads on texts made of the characters { } " : , 1 a *)

Digits == {"1"}

Fail == [ok |-> FALSE, val |-> [t |-> "none"], next |-> 0]

\* scan a string body from position i (after the opening quote)
RECURSIVE StringEnd(_, _)
StringEnd(s, i) ==
    IF i > Len(s) THEN 0
    ELSE IF s[i] = "\"" THEN i
    ELSE StringEnd(s, i + 1)

ParseString(s, i) ==
    LET j == StringEnd(s, i)
    IN  IF j = 0 THEN Fail
        ELSE [ok |-> TRUE, val |-> SubSeq(s, i, j - 1), next |-> j + 1]

\* first position from i that is not a digit
RECURSIVE NumberEnd(_, _)
NumberEnd(s, i) ==
    IF i > Len(s) \/ s[i] \notin Digits THEN i ELSE NumberEnd(s, i + 1)

RECURSIVE IntOf(_)
IntOf(ds) == IF ds = <<>> THEN 0 ELSE 10 * IntOf(SubSeq(ds, 1, Len(ds) - 1)) + 1

EmptyDict == [k \in {} |-> [t |-> "none"]]

RECURSIVE ParseValue(_, _)
RECURSIVE ParseMembers(_, _, _)

\* one JSON value starting at position i
ParseValue(s, i) ==
    IF i > Len(s) THEN Fail
    ELSE IF s[i] = "\"" THEN
        LET r == ParseString(s, i + 1)
        IN  IF r.ok
            THEN [ok |-> TRUE, val |-> [t |-> "str", v |-> r.val], next |-> r.next]
            ELSE Fail
    ELSE IF s[i] \in Digits THEN
        LET j == NumberEnd(s, i)
        IN  [ok |-> TRUE, val |-> [t |-> "int", v |-> IntOf(SubSeq(s, i, j - 1))],
             next |-> j]
    ELSE IF s[i] = "{" THEN
        IF i + 1 <= Len(s) /\ s[i + 1] = "}"
        THEN [ok |-> TRUE, val |-> [t |-> "dict", v |-> EmptyDict], next |-> i + 2]
        ELSE ParseMembers(s, i + 1, EmptyDict)
    ELSE Fail

\* the members of an object, position i expecting a quoted key;
\* a repeated key keeps its last value
ParseMembers(s, i, acc) ==
    IF i > Len(s) \/ s[i] # "\"" THEN Fail
    ELSE LET k == ParseString(s, i + 1)
         IN  IF ~k.ok \/ k.next > Len(s) \/ s[k.next] # ":" THEN Fail
             ELSE LET v == ParseValue(s, k.next + 1)
                  IN  IF ~v.ok \/ v.next > Len(s) THEN Fail
                      ELSE LET acc2 == (k.val :> v.val) @@ acc
                           IN  IF s[v.next] = ","
                               THEN ParseMembers(s, v.next + 1, acc2)
                               ELSE IF s[v.next] = "}"
                                    THEN [ok |-> TRUE,
                                          val |-> [t |-> "dict", v |-> acc2],
                                          next |-> v.next + 1]
                                    ELSE Fail

\* json.loads(text): the value, or ok = FALSE for json.JSONDecodeError
JsonLoads(s) ==
    LET r == ParseValue(s, 1)
    IN  IF r.ok /\ r.next = Len(s) + 1
        THEN [ok |-> TRUE, val |-> r.val]
        ELSE [ok |-> FALSE, val |-> [t |-> "none"]]

-----------------------------------------------------------------------------
(* Exceptions: the classes the handlers of generate_response tell apart *)

\* .errors.RateLimitError and .errors.RefusalError (line 30) are classes of
\* this package; the openai.* classes are those of the transport (line 22)
ErrorClasses ==
    {"errors.RateLimitError", "errors.RefusalError",
     "openai.APITimeoutError", "openai.APIConnectionError",
     "openai.InternalServerError", "openai.RateLimitError",
     "openai.BadRequestError", "ValueError", "TypeError"}

\* direct base class
Base(cl) ==
    CASE cl = "openai.APITimeoutError" -> "openai.APIConnectionError"
      [] cl = "openai.APIConnectionError" -> "openai.APIError"
      [] cl = "openai.InternalServerError" -> "openai.APIStatusError"
      [] cl = "openai.RateLimitError" -> "openai.APIStatusError"
      [] cl = "openai.BadRequestError" -> "openai.APIStatusError"
      [] cl = "openai.APIStatusError" -> "openai.APIError"
      [] cl = "openai.APIError" -> "Exception"
      [] cl = "errors.RateLimitError" -> "Exception"
      [] cl = "errors.RefusalError" -> "Exception"
      [] cl = "ValueError" -> "Exception"
      [] cl = "TypeError" -> "Exception"
      [] cl = "Exception" -> "BaseException"
      [] OTHER -> "object"

\* issubclass(cl, target)
RECURSIVE IsSubclass(_, _)
IsSubclass(cl, target) ==
    IF cl = target THEN TRUE
    ELSE IF cl = "object" THEN FALSE
    ELSE IsSubclass(Base(cl), target)

\* isinstance(e, (t1, t2, ...)): what an `except (t1, t2, ...)` clause catches
Catches(targets, e) == \E t \in targets : IsSubclass(e.class, t)

\* e.__class__.__name__
ClassName(cl) ==
    CASE cl = "errors.RateLimitError" -> "RateLimitError"
      [] cl = "errors.RefusalError" -> "RefusalError"
      [] cl = "openai.APITimeoutError" -> "APITimeoutError"
      [] cl = "openai.APIConnectionError" -> "APIConnectionError"
      [] cl = "openai.InternalServerError" -> "InternalServerError"
      [] cl = "openai.RateLimitError" -> "RateLimitError"
      [] cl = "openai.BadRequestError" -> "BadRequestError"
      [] OTHER -> cl

NoError == [class |-> "none", msg |-> <<>>]

\* str(e) of the errors the transport raises
ErrMsgs == { <<"e">> }

\* json.loads(None)
JsonTypeError ==
    [class |-> "TypeError",
     msg |-> <<"the JSON object must be str, bytes or bytearray, not NoneType">>]

\* variant of Classify: RefusalError missing from the first clause
ClassifyWithoutRefusal(e) ==
    IF Catches({"errors.RateLimitError"}, e)
    THEN "non_retryable"
    ELSE IF Catches({"openai.APITimeoutError", "openai.APIConnectionError",
                     "openai.InternalServerError"}, e)
    THEN "transport"
    ELSE IF Catches({"Exception"}, e)
    THEN "application"
    ELSE "uncaught"

\* variant of Classify: the second except clause missing
ClassifyWithoutTransport(e) ==
    IF Catches({"errors.RateLimitError", "errors.RefusalError"}, e)
    THEN "non_retryable"
    ELSE IF Catches({"Exception"}, e)
    THEN "application"
    ELSE "uncaught"

\* The except clauses of generate_response, in order (lines 149-155)
Classify(e) ==
    IF Catches({"errors.RateLimitError", "errors.RefusalError"}, e)
    THEN "non_retryable"
    ELSE IF Catches({"openai.APITimeoutError", "openai.APIConnectionError",
                     "openai.InternalServerError"}, e)
    THEN "transport"
    ELSE IF Catches({"Exception"}, e)
    THEN "application"
    ELSE "uncaught"

-----------------------------------------------------------------------------
(* Response Normalizer: lines 113-130 *)

\* the key 'content' of the fallback mapping
ContentKey == <<"c", "o", "n", "t", "e", "n", "t">>

\* response.choices[0].message.model_dump()
ModelDump(message) ==
    [t |-> "message",
     v |-> [role |-> message.role, content |-> message.content,
            refusal |-> message.refusal]]

\* variant of Normalize: manual decoding whenever a structured result is
\* requested, whatever the model
NormalizeIgnoringModel(message, m, rm) ==
    IF rm
    THEN IF message.content = None
         THEN [kind |-> "raise", value |-> [t |-> "none"], error |-> JsonTypeError]
         ELSE LET parsed == JsonLoads(message.content)
              IN  IF parsed.ok
                  THEN [kind |-> "return", value |-> parsed.val, error |-> NoError]
                  ELSE [kind |-> "return",
                        value |-> [t |-> "dict",
                                   v |-> (ContentKey :>
                                            [t |-> "str", v |-> message.content])],
                        error |-> NoError]
    ELSE [kind |-> "return", value |-> ModelDump(message), error |-> NoError]

\* what _generate_response does with the completion the transport returned
Normalize(message, m, rm) ==
    IF IsDeepseek(m) /\ rm
    THEN IF message.content = None
         THEN [kind |-> "raise", value |-> [t |-> "none"], error |-> JsonTypeError]
         ELSE LET parsed == JsonLoads(message.content)
              IN  IF parsed.ok
                  THEN [kind |-> "return", value |-> parsed.val, error |-> NoError]
                  ELSE [kind |-> "return",
                        value |-> [t |-> "dict",
                                   v |-> (ContentKey :>
                                            [t |-> "str", v |-> message.content])],
                        error |-> NoError]
    ELSE [kind |-> "return", value |-> ModelDump(message), error |-> NoError]

\* _generate_response from the transport's answer on: a returned completion
\* is normalised, a raised error is logged and re-raised (lines 132-137)
AttemptResult(outcome, m, rm) ==
    IF outcome.kind = "response"
    THEN Normalize(outcome.message, m, rm)
    ELSE [kind |-> "raise", value |-> [t |-> "none"], error |-> outcome.error]

-----------------------------------------------------------------------------
(* The transport: client.chat.completions.create *)

RECURSIVE StringsUpTo(_, _)
StringsUpTo(alphabet, n) ==
    IF n = 0 THEN {<<>>}
    ELSE LET shorter == StringsUpTo(alphabet, n - 1)
         IN  shorter \cup {Append(s, c) : s \in shorter, c \in alphabet}

SampleTexts ==
    { <<"{", "}">>,
      <<"{", "\"", "a", "\"", ":", "1", "}">>,
      <<"{", "\"", "a", "\"", ":", "\"", "a", "\"", "}">>,
      <<"{", "\"", "a", "\"", ":", "1", ",", "\"", "a", "\"", ":", "1", "1", "}">>,
      <<"{", "\"", "a", "\"", ":", "{", "\"", "1", "\"", ":", "1", "}", "}">>,
      <<"{", "\"", "a", "\"", ":", "1", ",", "}">>,
      <<"{", "\"", "a", "\"", ":", "1">>,
      <<"\"", "a", "\"">> }

\* the short completion texts are all strings over these characters
ShortAlphabet == {"{", "\"", "1"}

Texts == StringsUpTo(ShortAlphabet, MaxTextLen) \cup SampleTexts

NoMessage == [role |-> "none", content |-> <<>>, refusal |-> <<>>]

\* response.choices[0].message of a completion
CompletionMessages ==
    {[role |-> "assistant", content |-> c, refusal |-> None] :
        c \in Texts \cup {None}}

RaisedClasses == ErrorClasses \ {"TypeError"}

TransportOutcomes ==
    {[kind |-> "response", message |-> msg, error |-> NoError] :
        msg \in CompletionMessages}
    \cup
    {[kind |-> "raise", message |-> NoMessage,
      error |-> [class |-> cl, msg |-> em]] :
        cl \in RaisedClasses, em \in ErrMsgs}

-----------------------------------------------------------------------------
(* graph_data_operations.py: retrieve_episodes, lines 85-121, and
   clear_data, lines 76-82 *)

EPISODE_WINDOW_LEN == 3

Times == 1..MaxTime

\* the Episodic nodes of a graph: valid_at timestamps are distinct (the
\* uuid of a node is written as its valid_at), created_at is any time
EpisodeSets ==
    UNION { { {[uuid |-> v, valid_at |-> v, created_at |-> f[v]] : v \in V} :
                f \in [V -> Times] } :
            V \in SUBSET Times }

\* MATCH (e:Episodic) WHERE e.valid_at <= $reference_time
Matching(db, t) == {e \in db : e.valid_at <= t}

\* the orders in which the database may hand out the rows of rs
Orderings(rs) ==
    {p \in [1..Cardinality(rs) -> rs] :
        \A a, b \in 1..Cardinality(rs) : a # b => p[a] # p[b]}

\* ORDER BY e.created_at DESC: rows with equal created_at come in any order
OrderedDesc(p) ==
    \A a, b \in 1..Len(p) : a < b => p[a].created_at >= p[b].created_at

\* LIMIT $num_episodes
Limit(p, n) == SubSeq(p, 1, IF n < Len(p) THEN n ELSE Len(p))

\* result.records of the query of lines 91-106: every list the database may
\* return for it
QueryRecords(db, t, n) ==
    {Limit(p, n) : p \in {q \in Orderings(Matching(db, t)) : OrderedDesc(q)}}

\* the EpisodicNode built from a record, lines 108-118
EpisodicNode(record) ==
    [uuid |-> record.uuid, valid_at |-> record.valid_at,
     created_at |-> record.created_at]

\* list(reversed(episodes))
Reversed(l) == [j \in 1..Len(l) |-> l[Len(l) + 1 - j]]

\* lines 107-121: the nodes built from the records, reversed
EpisodesFrom(rs) == Reversed([j \in 1..Len(rs) |-> EpisodicNode(rs[j])])

\* the lists a retrieve_episodes call may return when nothing else touches
\* the graph while it runs
RetrieveEpisodesResults(db, t, n) ==
    {EpisodesFrom(rs) : rs \in QueryRecords(db, t, n)}

\* no graph, no call of retrieve_episodes or clear_data
EpisodesIdle ==
    /\ episodes = {}
    /\ reference_time = 0
    /\ last_n = 0
    /\ records = <<>>
    /\ returned = <<>>
    /\ epc = "idle"
    /\ calls = 0
    /\ clears = 0

\* a graph holding Episodic nodes, no call made yet
InitEpisodes ==
    /\ episodes \in EpisodeSets
    /\ reference_time = 0
    /\ last_n = 0
    /\ records = <<>>
    /\ returned = <<>>
    /\ epc = "idle"
    /\ calls = 0
    /\ clears = 0

\* retrieve_episodes(driver, reference_time, last_n) is called and runs up
\* to the await of line 91: the query is handed to the driver and the
\* coroutine is suspended
CallRetrieveEpisodes ==
    /\ epc \in {"idle", "returned"}
    /\ calls < MaxCalls
    /\ \E t \in Times, n \in (0..MaxLastN) \cup {EPISODE_WINDOW_LEN} :
        /\ reference_time' = t
        /\ last_n' = n
    /\ records' = <<>>
    /\ returned' = <<>>
    /\ epc' = "querying"
    /\ calls' = calls + 1
    /\ UNCHANGED <<episodes, clears>>
    /\ UNCHANGED <<client_vars, index_vars>>

\* the database runs the query of lines 92-103 on the graph as it is then
RunEpisodesQuery ==
    /\ epc = "querying"
    /\ records' \in QueryRecords(episodes, reference_time, last_n)
    /\ epc' = "answered"
    /\ UNCHANGED <<episodes, reference_time, last_n, returned, calls, clears>>
    /\ UNCHANGED <<client_vars, index_vars>>

\* the await of line 91 completes and the call runs to its return: lines
\* 107-121 on the records the database produced
ReturnEpisodes ==
    /\ epc = "answered"
    /\ returned' = EpisodesFrom(records)
    /\ epc' = "returned"
    /\ UNCHANGED <<episodes, reference_time, last_n, records, calls, clears>>
    /\ UNCHANGED <<client_vars, index_vars>>

\* clear_data, lines 76-82: the write transaction of MATCH (n) DETACH DELETE n
\* commits, at any moment of a retrieve_episodes call
ClearData ==
    /\ clears < MaxClears
    /\ episodes' = {}
    /\ clears' = clears + 1
    /\ UNCHANGED <<reference_time, last_n, records, returned, epc, calls>>
    /\ UNCHANGED <<client_vars, index_vars>>

-----------------------------------------------------------------------------
(* graph_data_operations.py: build_indices_and_constraints, lines 31-73 *)

\* range_indices, lines 32-46
RangeIndices ==
    { [kind |-> "RANGE", name |-> "entity_uuid", on |-> "Entity", props |-> <<"uuid">>, if_not_exists |-> TRUE],
      [kind |-> "RANGE", name |-> "episode_uuid", on |-> "Episodic", props |-> <<"uuid">>, if_not_exists |-> TRUE],
      [kind |-> "RANGE", name |-> "relation_uuid", on |-> "RELATES_TO", props |-> <<"uuid">>, if_not_exists |-> TRUE],
      [kind |-> "RANGE", name |-> "mention_uuid", on |-> "MENTIONS", props |-> <<"uuid">>, if_not_exists |-> TRUE],
      [kind |-> "RANGE", name |-> "name_entity_index", on |-> "Entity", props |-> <<"name">>, if_not_exists |-> TRUE],
      [kind |-> "RANGE", name |-> "created_at_entity_index", on |-> "Entity", props |-> <<"created_at">>, if_not_exists |-> TRUE],
      [kind |-> "RANGE", name |-> "created_at_episodic_index", on |-> "Episodic", props |-> <<"created_at">>, if_not_exists |-> TRUE],
      [kind |-> "RANGE", name |-> "valid_at_episodic_index", on |-> "Episodic", props |-> <<"valid_at">>, if_not_exists |-> TRUE],
      [kind |-> "RANGE", name |-> "name_edge_index", on |-> "RELATES_TO", props |-> <<"name">>, if_not_exists |-> TRUE],
      [kind |-> "RANGE", name |-> "created_at_edge_index", on |-> "RELATES_TO", props |-> <<"created_at">>, if_not_exists |-> TRUE],
      [kind |-> "RANGE", name |-> "expired_at_edge_index", on |-> "RELATES_TO", props |-> <<"expired_at">>, if_not_exists |-> TRUE],
      [kind |-> "RANGE", name |-> "valid_at_edge_index", on |-> "RELATES_TO", props |-> <<"valid_at">>, if_not_exists |-> TRUE],
      [kind |-> "RANGE", name |-> "invalid_at_edge_index", on |-> "RELATES_TO", props |-> <<"invalid_at">>, if_not_exists |-> TRUE] }

\* fulltext_indices, lines 48-51
FulltextIndices ==
    { [kind |-> "FULLTEXT", name |-> "name_and_summary", on |-> "Entity", props |-> <<"name", "summary">>, if_not_exists |-> TRUE],
      [kind |-> "FULLTEXT", name |-> "name_and_fact", on |-> "RELATES_TO", props |-> <<"name", "fact">>, if_not_exists |-> TRUE] }

\* vector_indices, lines 53-70
VectorIndices ==
    { [kind |-> "VECTOR", name |-> "fact_embedding", on |-> "RELATES_TO", props |-> <<"fact_embedding">>, if_not_exists |-> TRUE],
      [kind |-> "VECTOR", name |-> "name_embedding", on |-> "Entity", props |-> <<"name_embedding">>, if_not_exists |-> TRUE] }

\* index_queries = range_indices + fulltext_indices + vector_indices
IndexQueries == RangeIndices \cup FulltextIndices \cup VectorIndices

\* the index a query asks for
IndexOf(q) == [kind |-> q.kind, name |-> q.name, on |-> q.on, props |-> q.props]

\* the database holds an index of this name, or one of the same kind on
\* the same label / relationship type and properties
Exists(idx, q) ==
    \E x \in idx :
        \/ x.name = q.name
        \/ (x.kind = q.kind /\ x.on = q.on /\ x.props = q.props)

\* variant of HasIfNotExists: the clause missing from the queries
WithoutIfNotExists(q) == FALSE

\* the query text holds IF NOT EXISTS
HasIfNotExists(q) == q.if_not_exists

\* driver.execute_query(query) on a CREATE ... INDEX statement: the index
\* is created; where it exists already the statement does nothing with
\* IF NOT EXISTS and fails without
ExecuteQuery(idx, q) ==
    IF Exists(idx, q)
    THEN [indices |-> idx, raised |-> ~HasIfNotExists(q)]
    ELSE [indices |-> idx \cup {IndexOf(q)}, raised |-> FALSE]

IndicesIdle ==
    /\ indices = {}
    /\ pending = {}
    /\ builds = 0
    /\ index_error = FALSE
    /\ first_indices = {}
    /\ bpc = "idle"

\* build_indices_and_constraints is called, up to line 73: the coroutines
\* of all queries are handed to asyncio.gather
StartBuild ==
    /\ bpc = "idle"
    /\ builds < MaxBuilds
    /\ pending' = IndexQueries
    /\ bpc' = "gathering"
    /\ UNCHANGED <<indices, builds, index_error, first_indices>>
    /\ UNCHANGED <<client_vars, episode_vars>>

\* one of the gathered queries runs; they run in any order
RunQuery ==
    /\ bpc = "gathering"
    /\ \E q \in pending :
        LET r == ExecuteQuery(indices, q)
        IN  /\ indices' = r.indices
            /\ index_error' = (index_error \/ r.raised)
            /\ pending' = pending \ {q}
    /\ UNCHANGED <<builds, first_indices, bpc>>
    /\ UNCHANGED <<client_vars, episode_vars>>

\* all gathered queries are done: line 73 completes
FinishBuild ==
    /\ bpc = "gathering"
    /\ pending = {}
    /\ builds' = builds + 1
    /\ first_indices' = IF builds = 0 THEN indices ELSE first_indices
    /\ bpc' = "idle"
    /\ UNCHANGED <<indices, pending, index_error>>
    /\ UNCHANGED <<client_vars, episode_vars>>

-----------------------------------------------------------------------------
(* Inputs of an invocation *)

Roles == {"user", "system", "assistant"}

Contents == { <<"a">>, <<"<NUL>", "b">> }

MessageValues == [role : Roles, content : Contents]

RECURSIVE ListsUpTo(_, _)
ListsUpTo(S, n) ==
    IF n = 0 THEN {<<>>}
    ELSE LET shorter == ListsUpTo(S, n - 1)
         IN  shorter \cup {Append(l, x) : l \in shorter, x \in S}

Conversations == ListsUpTo(MessageValues, MaxMsgs)

\* self.model: unset, empty, a name with the marker in another case and not
\* at the start, a name with all but the marker's last character
ModelNames ==
    { None,
      <<>>,
      <<"x", "D", "e", "e", "p", "S", "e", "e", "k">>,
      <<"d", "e", "e", "p", "s", "e", "e">> }

-----------------------------------------------------------------------------
(* generate_response: lines 139-181 *)

\* while retry_count <= self.MAX_RETRIES
LoopCondition(rc) == rc <= MAX_RETRIES

\* variant of RetriesExhausted: the bound off by one
RetriesExhaustedEarly(rc) == rc >= MAX_RETRIES - 1

\* variant of RetriesExhausted: > written for >=
RetriesExhaustedLate(rc) == rc > MAX_RETRIES

\* if retry_count >= self.MAX_RETRIES
RetriesExhausted(rc) == rc >= MAX_RETRIES

\* variant of Incremented: the increment forgotten
IncrementForgotten(rc) == rc

\* variant of Incremented: the counter advanced by two
IncrementedTwice(rc) == rc + 2

\* retry_count += 1
Incremented(rc) == rc + 1

\* error_context, lines 166-172
ErrorContext(e) ==
    <<"The previous response attempt was invalid. Error type: ">>
    \o <<ClassName(e.class)>>
    \o <<". Error details: ">>
    \o e.msg
    \o <<". Please try again with a valid response, ensuring the output matches the expected format and constraints.">>

\* variant of CorrectiveMessage: the message attributed to the assistant
CorrectiveMessageAsAssistant(e) == [role |-> "assistant", content |-> ErrorContext(e)]

\* error_message = Message(role='user', content=error_context)
CorrectiveMessage(e) == [role |-> "user", content |-> ErrorContext(e)]

\* raise last_error or Exception('Max retries exceeded with no specific error')
GenericError ==
    [class |-> "Exception", msg |-> <<"Max retries exceeded with no specific error">>]

Pending == [kind |-> "pending", value |-> [t |-> "none"], error |-> NoError]

Raised(e) == [kind |-> "raise", value |-> [t |-> "none"], error |-> e]

\* the calls I at their entry, with self.model in Ms and messages in Cs
InitWith(I, Ms, Cs) ==
    /\ invs = I
    /\ model \in [I -> Ms]
    /\ response_model \in [I -> BOOLEAN]
    /\ messages \in [I -> Cs]
    /\ supplied = messages
    /\ retry_count = [i \in I |-> 0]
    /\ last_error = [i \in I |-> NoError]
    /\ pc = [i \in I |-> "Attempting"]
    /\ sent = [i \in I |-> <<>>]
    /\ outcomes = [i \in I |-> <<>>]
    /\ attempts = [i \in I |-> <<>>]
    /\ result = [i \in I |-> Pending]

InitFor(I) == InitWith(I, ModelNames, Conversations)

\* one call of generate_response; the graph operations are not running
Init == InitFor({1}) /\ EpisodesIdle /\ IndicesIdle

\* Line 145, and on into _generate_response up to the await of line 111:
\* the messages are sanitized in place, the request is built and handed to
\* the transport. With the loop condition false, line 181.
LoopHead(i) ==
    /\ pc[i] = "Attempting"
    /\ IF LoopCondition(retry_count[i])
       THEN /\ messages' = [messages EXCEPT ![i] = CleanedInPlace(@)]
            /\ sent' = [sent EXCEPT ![i] =
                          Append(@, [params |-> CompletionParams(model[i], messages[i]),
                                     conv |-> messages[i]])]
            /\ pc' = [pc EXCEPT ![i] = "Awaiting"]
            /\ UNCHANGED result
       ELSE /\ result' = [result EXCEPT ![i] =
                            Raised(IF last_error[i] # NoError
                                   THEN last_error[i] ELSE GenericError)]
            /\ pc' = [pc EXCEPT ![i] = "Done"]
            /\ UNCHANGED <<messages, sent>>
    /\ UNCHANGED <<episode_vars, index_vars>>
    /\ UNCHANGED <<invs, model, response_model, supplied, retry_count,
                   last_error, outcomes, attempts>>

\* Lines 111-130 and 147-148: the transport returns a completion, it is
\* normalised and returned
Return(i) ==
    /\ pc[i] = "Awaiting"
    /\ \E o \in TransportOutcomes :
        LET r == AttemptResult(o, model[i], response_model[i])
        IN  /\ r.kind = "return"
            /\ outcomes' = [outcomes EXCEPT ![i] = Append(@, o)]
            /\ attempts' = [attempts EXCEPT ![i] = Append(@, r)]
            /\ result' = [result EXCEPT ![i] = r]
            /\ pc' = [pc EXCEPT ![i] = "Done"]
    /\ UNCHANGED <<episode_vars, index_vars>>
    /\ UNCHANGED <<invs, model, response_model, messages, supplied,
                   retry_count, last_error, sent>>

\* Lines 149-151: except (RateLimitError, RefusalError): raise
ReraiseNonRetryable(i) ==
    /\ pc[i] = "Awaiting"
    /\ \E o \in TransportOutcomes :
        LET r == AttemptResult(o, model[i], response_model[i])
        IN  /\ r.kind = "raise"
            /\ Classify(r.error) = "non_retryable"
            /\ outcomes' = [outcomes EXCEPT ![i] = Append(@, o)]
            /\ attempts' = [attempts EXCEPT ![i] = Append(@, r)]
            /\ result' = [result EXCEPT ![i] = Raised(r.error)]
            /\ pc' = [pc EXCEPT ![i] = "Done"]
    /\ UNCHANGED <<episode_vars, index_vars>>
    /\ UNCHANGED <<invs, model, response_model, messages, supplied,
                   retry_count, last_error, sent>>

\* Lines 152-154: except (APITimeoutError, APIConnectionError,
\* InternalServerError): raise
ReraiseTransport(i) ==
    /\ pc[i] = "Awaiting"
    /\ \E o \in TransportOutcomes :
        LET r == AttemptResult(o, model[i], response_model[i])
        IN  /\ r.kind = "raise"
            /\ Classify(r.error) = "transport"
            /\ outcomes' = [outcomes EXCEPT ![i] = Append(@, o)]
            /\ attempts' = [attempts EXCEPT ![i] = Append(@, r)]
            /\ result' = [result EXCEPT ![i] = Raised(r.error)]
            /\ pc' = [pc EXCEPT ![i] = "Done"]
    /\ UNCHANGED <<episode_vars, index_vars>>
    /\ UNCHANGED <<invs, model, response_model, messages, supplied,
                   retry_count, last_error, sent>>

\* variant of Retry: the corrective message is not appended
RetryWithoutAppend(i) ==
    /\ pc[i] = "Awaiting"
    /\ \E o \in TransportOutcomes :
        LET r == AttemptResult(o, model[i], response_model[i])
        IN  /\ r.kind = "raise"
            /\ Classify(r.error) = "application"
            /\ ~RetriesExhausted(retry_count[i])
            /\ outcomes' = [outcomes EXCEPT ![i] = Append(@, o)]
            /\ attempts' = [attempts EXCEPT ![i] = Append(@, r)]
            /\ last_error' = [last_error EXCEPT ![i] = r.error]
            /\ retry_count' = [retry_count EXCEPT ![i] = Incremented(@)]
            /\ pc' = [pc EXCEPT ![i] = "Attempting"]
    /\ UNCHANGED <<episode_vars, index_vars>>
    /\ UNCHANGED <<invs, model, response_model, messages, supplied, sent, result>>

\* variant of Retry: the corrective message is put at the front of the list
RetryPrepending(i) ==
    /\ pc[i] = "Awaiting"
    /\ \E o \in TransportOutcomes :
        LET r == AttemptResult(o, model[i], response_model[i])
        IN  /\ r.kind = "raise"
            /\ Classify(r.error) = "application"
            /\ ~RetriesExhausted(retry_count[i])
            /\ outcomes' = [outcomes EXCEPT ![i] = Append(@, o)]
            /\ attempts' = [attempts EXCEPT ![i] = Append(@, r)]
            /\ last_error' = [last_error EXCEPT ![i] = r.error]
            /\ retry_count' = [retry_count EXCEPT ![i] = Incremented(@)]
            /\ messages' = [messages EXCEPT ![i] = <<CorrectiveMessage(r.error)>> \o @]
            /\ pc' = [pc EXCEPT ![i] = "Attempting"]
    /\ UNCHANGED <<episode_vars, index_vars>>
    /\ UNCHANGED <<invs, model, response_model, supplied, sent, result>>

\* variant of Retry: the call stops at the retryable failure
RetryStuck(i) ==
    /\ pc[i] = "Awaiting"
    /\ \E o \in TransportOutcomes :
        LET r == AttemptResult(o, model[i], response_model[i])
        IN  /\ r.kind = "raise"
            /\ Classify(r.error) = "application"
            /\ ~RetriesExhausted(retry_count[i])
            /\ outcomes' = [outcomes EXCEPT ![i] = Append(@, o)]
            /\ attempts' = [attempts EXCEPT ![i] = Append(@, r)]
            /\ last_error' = [last_error EXCEPT ![i] = r.error]
            /\ retry_count' = [retry_count EXCEPT ![i] = Incremented(@)]
            /\ messages' = [messages EXCEPT ![i] = Append(@, CorrectiveMessage(r.error))]
            /\ pc' = [pc EXCEPT ![i] = "RetryableFailure"]
    /\ UNCHANGED <<episode_vars, index_vars>>
    /\ UNCHANGED <<invs, model, response_model, supplied, sent, result>>

\* variant of Retry: one retry counter for all the calls in progress
RetrySharedCounter(i) ==
    /\ pc[i] = "Awaiting"
    /\ \E o \in TransportOutcomes :
        LET r == AttemptResult(o, model[i], response_model[i])
        IN  /\ r.kind = "raise"
            /\ Classify(r.error) = "application"
            /\ ~RetriesExhausted(retry_count[i])
            /\ outcomes' = [outcomes EXCEPT ![i] = Append(@, o)]
            /\ attempts' = [attempts EXCEPT ![i] = Append(@, r)]
            /\ last_error' = [last_error EXCEPT ![i] = r.error]
            /\ retry_count' = [j \in invs |-> Incremented(retry_count[j])]
            /\ messages' = [messages EXCEPT ![i] = Append(@, CorrectiveMessage(r.error))]
            /\ pc' = [pc EXCEPT ![i] = "Attempting"]
    /\ UNCHANGED <<episode_vars, index_vars>>
    /\ UNCHANGED <<invs, model, response_model, supplied, sent, result>>

\* Lines 155-178 with retries left: count, append the corrective message,
\* go round the loop
Retry(i) ==
    /\ pc[i] = "Awaiting"
    /\ \E o \in TransportOutcomes :
        LET r == AttemptResult(o, model[i], response_model[i])
        IN  /\ r.kind = "raise"
            /\ Classify(r.error) = "application"
            /\ ~RetriesExhausted(retry_count[i])
            /\ outcomes' = [outcomes EXCEPT ![i] = Append(@, o)]
            /\ attempts' = [attempts EXCEPT ![i] = Append(@, r)]
            /\ last_error' = [last_error EXCEPT ![i] = r.error]
            /\ retry_count' = [retry_count EXCEPT ![i] = Incremented(@)]
            /\ messages' = [messages EXCEPT ![i] = Append(@, CorrectiveMessage(r.error))]
            /\ pc' = [pc EXCEPT ![i] = "Attempting"]
    /\ UNCHANGED <<episode_vars, index_vars>>
    /\ UNCHANGED <<invs, model, response_model, supplied, sent, result>>

\* variant of Exhaust: a corrective message appended for the final failure
ExhaustAppending(i) ==
    /\ pc[i] = "Awaiting"
    /\ \E o \in TransportOutcomes :
        LET r == AttemptResult(o, model[i], response_model[i])
        IN  /\ r.kind = "raise"
            /\ Classify(r.error) = "application"
            /\ RetriesExhausted(retry_count[i])
            /\ outcomes' = [outcomes EXCEPT ![i] = Append(@, o)]
            /\ attempts' = [attempts EXCEPT ![i] = Append(@, r)]
            /\ last_error' = [last_error EXCEPT ![i] = r.error]
            /\ messages' = [messages EXCEPT ![i] = Append(@, CorrectiveMessage(r.error))]
            /\ result' = [result EXCEPT ![i] = Raised(r.error)]
            /\ pc' = [pc EXCEPT ![i] = "Done"]
    /\ UNCHANGED <<episode_vars, index_vars>>
    /\ UNCHANGED <<invs, model, response_model, supplied, retry_count, sent>>

\* Lines 155-161 with no retry left: raise
Exhaust(i) ==
    /\ pc[i] = "Awaiting"
    /\ \E o \in TransportOutcomes :
        LET r == AttemptResult(o, model[i], response_model[i])
        IN  /\ r.kind = "raise"
            /\ Classify(r.error) = "application"
            /\ RetriesExhausted(retry_count[i])
            /\ outcomes' = [outcomes EXCEPT ![i] = Append(@, o)]
            /\ attempts' = [attempts EXCEPT ![i] = Append(@, r)]
            /\ last_error' = [last_error EXCEPT ![i] = r.error]
            /\ result' = [result EXCEPT ![i] = Raised(r.error)]
            /\ pc' = [pc EXCEPT ![i] = "Done"]
    /\ UNCHANGED <<episode_vars, index_vars>>
    /\ UNCHANGED <<invs, model, response_model, messages, supplied,
                   retry_count, sent>>

Next ==
    \/ \E i \in invs : LoopHead(i)
    \/ \E i \in invs : Return(i)
    \/ \E i \in invs : ReraiseNonRetryable(i)
    \/ \E i \in invs : ReraiseTransport(i)
    \/ \E i \in invs : Retry(i)
    \/ \E i \in invs : Exhaust(i)

Spec == Init /\ [][Next]_vars

\* the transport answers the await of line 111: a completion or an exception
Respond(i) ==
    \/ Return(i)
    \/ ReraiseNonRetryable(i)
    \/ ReraiseTransport(i)
    \/ Retry(i)
    \/ Exhaust(i)

\* one call on a conversation of at most one message: how a call ends
\* depends on what the transport answers, not on the conversation
FairInit == Init /\ \A i \in invs : Len(messages[i]) <= 1

\* A call that can take its next step takes it, and every awaited transport
\* call is answered
FairSpec ==
    /\ FairInit
    /\ [][Next]_vars
    /\ WF_vars(\E i \in invs : LoopHead(i))
    /\ WF_vars(\E i \in invs : Respond(i))

\* Two calls of generate_response on one client, interleaved at the await of
\* line 111, each with its own list of messages
ConcModels == {None, <<"d", "e", "e", "p", "s", "e", "e">>}

ConcConversations == {c \in Conversations : Len(c) = 1 /\ c[1].role = "user"}

\* the answers of the transport in the concurrent runs: a completion that
\* parses, one that does not, and an error of each kind of handling
ConcOutcomes ==
    {o \in TransportOutcomes :
        \/ /\ o.kind = "response"
           /\ o.message.content \in { <<"{", "}">>, <<"{">> }
        \/ /\ o.kind = "raise"
           /\ o.error.class \in {"errors.RefusalError", "openai.APITimeoutError",
                                 "openai.BadRequestError", "ValueError"}}

\* the answer the step has just consumed
AnswerIn(i, S) == outcomes'[i][Len(outcomes'[i])] \in S

ConcInit == InitWith({1, 2}, ConcModels, ConcConversations) /\ EpisodesIdle /\ IndicesIdle

ConcNext ==
    \/ \E i \in invs : LoopHead(i)
    \/ \E i \in invs : Return(i) /\ AnswerIn(i, ConcOutcomes)
    \/ \E i \in invs : ReraiseNonRetryable(i) /\ AnswerIn(i, ConcOutcomes)
    \/ \E i \in invs : ReraiseTransport(i) /\ AnswerIn(i, ConcOutcomes)
    \/ \E i \in invs : Retry(i) /\ AnswerIn(i, ConcOutcomes)
    \/ \E i \in invs : Exhaust(i) /\ AnswerIn(i, ConcOutcomes)

SpecConc == ConcInit /\ [][ConcNext]_vars

\* calls of retrieve_episodes and clear_data on every small graph; no
\* generate_response call runs
EpisodesInit == InitFor({}) /\ InitEpisodes /\ IndicesIdle

EpisodesNext ==
    \/ CallRetrieveEpisodes
    \/ RunEpisodesQuery
    \/ ReturnEpisodes
    \/ ClearData

SpecEpisodes == EpisodesInit /\ [][EpisodesNext]_vars

\* build_indices_and_constraints called MaxBuilds times on an empty database
IndicesInit == InitFor({}) /\ EpisodesIdle /\ IndicesIdle

IndicesNext ==
    \/ StartBuild
    \/ RunQuery
    \/ FinishBuild

SpecIndices == IndicesInit /\ [][IndicesNext]_vars

-----------------------------------------------------------------------------
(* Properties *)

\* how attempt k of invocation i ended, as generate_response sees it
AttemptOf(i, k) == attempts[i][k]

\* attempt k of invocation i ended the invocation by raising e to the
\* caller: nothing was sent after it, it was not counted as a retry and no
\* corrective message was appended for it
PropagatedAt(i, k, e) ==
    /\ k = Len(outcomes[i])
    /\ pc[i] = "Done"
    /\ result[i].kind = "raise"
    /\ result[i].error = e
    /\ Len(sent[i]) = k
    /\ retry_count[i] = k - 1
    /\ Len(messages[i]) = Len(supplied[i]) + (k - 1)

\* C1: one call of generate_response performs at most MAX_RETRIES + 1
\* transport invocations, whatever the conversation and the outcomes.
C1_AtMostThreeInvocations ==
    \A i \in invs : Len(sent[i]) <= MAX_RETRIES + 1

C1_Witness ==
    \E i \in invs : Len(sent[i]) = MAX_RETRIES + 1 /\ pc[i] = "Done"

\* C2: a RateLimitError or RefusalError raised on any attempt reaches the
\* caller as the same error, ends the invocation, and is neither counted as
\* a retry nor answered with a corrective message.
C2_NonRetryablePropagates ==
    \A i \in invs : \A k \in 1..Len(outcomes[i]) :
        LET o == outcomes[i][k]
        IN  (o.kind = "raise"
             /\ o.error.class \in {"errors.RateLimitError", "errors.RefusalError"})
            => PropagatedAt(i, k, o.error)

C2_Witness ==
    \E i \in invs :
        /\ Len(outcomes[i]) = 2
        /\ outcomes[i][2].kind = "raise"
        /\ outcomes[i][2].error.class = "errors.RefusalError"
        /\ result[i].kind = "raise"

\* C3: a timeout, connection failure or internal server error of the
\* transport, on any attempt, reaches the caller at once: no invocation
\* follows it and no corrective message is appended.
C3_TransportErrorPropagates ==
    \A i \in invs : \A k \in 1..Len(outcomes[i]) :
        LET o == outcomes[i][k]
        IN  (o.kind = "raise"
             /\ o.error.class \in {"openai.APITimeoutError",
                                   "openai.APIConnectionError",
                                   "openai.InternalServerError"})
            => PropagatedAt(i, k, o.error)

C3_Witness ==
    \E i \in invs :
        /\ Len(outcomes[i]) = 3
        /\ outcomes[i][3].kind = "raise"
        /\ outcomes[i][3].error.class = "openai.APITimeoutError"
        /\ result[i].kind = "raise"

\* C4: a rate-limit failure raised by client.chat.completions.create
\* (openai.RateLimitError) is classified as rate-limited and never retried:
\* it ends the invocation, with no corrective message appended for it.
C4_TransportRateLimitNotRetried ==
    \A i \in invs : \A k \in 1..Len(outcomes[i]) :
        LET o == outcomes[i][k]
        IN  (o.kind = "raise" /\ o.error.class = "openai.RateLimitError")
            => /\ Classify(o.error) = "non_retryable"
               /\ PropagatedAt(i, k, o.error)

\* the number of attempts of invocation i that were followed by a retry
Retried(i) ==
    IF pc[i] = "Done" THEN Len(outcomes[i]) - 1 ELSE Len(outcomes[i])

\* C5: attempt N+1, reached after N consecutive application-level failures,
\* starts on a conversation of the initial length + N; a failure that is
\* not retried appends nothing.
C5_OneCorrectiveMessagePerRetry ==
    \A i \in invs :
        /\ \A k \in 1..Len(sent[i]) :
              /\ \A j \in 1..(k - 1) :
                    /\ AttemptOf(i, j).kind = "raise"
                    /\ Classify(AttemptOf(i, j).error) = "application"
              /\ Len(sent[i][k].conv) = Len(supplied[i]) + (k - 1)
        /\ Len(messages[i]) = Len(supplied[i]) + Retried(i)

C5_Witness ==
    \E i \in invs :
        /\ Len(sent[i]) = MAX_RETRIES + 1
        /\ Len(supplied[i]) = MaxMsgs
        /\ Len(sent[i][MAX_RETRIES + 1].conv) = MaxMsgs + MAX_RETRIES
        /\ result[i].kind = "raise"

\* every attempt so far of invocation i failed with an application-level error
AllApplicationFailures(i) ==
    \A k \in 1..Len(outcomes[i]) :
        /\ AttemptOf(i, k).kind = "raise"
        /\ Classify(AttemptOf(i, k).error) = "application"

\* C6: after MAX_RETRIES + 1 consecutive application-level failures the
\* caller gets the error of the last attempt, class and text as raised; an
\* application-level error reaches the caller only then.
C6_ExhaustedRaisesLastError ==
    \A i \in invs :
        /\ (Len(outcomes[i]) = MAX_RETRIES + 1 /\ AllApplicationFailures(i))
            => /\ pc[i] = "Done"
               /\ result[i].kind = "raise"
               /\ result[i].error = AttemptOf(i, MAX_RETRIES + 1).error
        /\ (result[i].kind = "raise" /\ Classify(result[i].error) = "application")
            => /\ Len(outcomes[i]) = MAX_RETRIES + 1
               /\ AllApplicationFailures(i)

C6_Witness ==
    \E i \in invs :
        /\ Len(outcomes[i]) = MAX_RETRIES + 1
        /\ AllApplicationFailures(i)
        /\ AttemptOf(i, 1).error.class = "openai.BadRequestError"
        /\ AttemptOf(i, 2).error.class = "TypeError"
        /\ AttemptOf(i, 3).error.class = "ValueError"
        /\ result[i].error.class = "ValueError"

\* attempt k of invocation i ended the invocation by returning: it was the
\* last attempt, no retry was counted and nothing was appended for it
ReturnedAt(i, k) ==
    /\ k = Len(outcomes[i])
    /\ pc[i] = "Done"
    /\ result[i].kind = "return"
    /\ Len(sent[i]) = k
    /\ retry_count[i] = k - 1
    /\ Len(messages[i]) = Len(supplied[i]) + (k - 1)

\* the model name of the request of attempt k contains the marker
MarkerInRequest(i, k) == Contains(Lower(sent[i][k].params.model), Marker)

\* C7: with the marker in the model name and a structured result
\* requested, every completion makes the attempt a success whose result is
\* a mapping: the parsed mapping when the completion text parses as JSON,
\* the single-field mapping {content: text} when it does not.
C7_ManualDecode ==
    \A i \in invs : \A k \in 1..Len(outcomes[i]) :
        LET o == outcomes[i][k]
            text == o.message.content
            parsed == JsonLoads(text)
        IN  (/\ o.kind = "response"
             /\ response_model[i]
             /\ MarkerInRequest(i, k))
            => /\ ReturnedAt(i, k)
               /\ result[i].value.t = "dict"
               /\ (text # None /\ parsed.ok) => result[i].value = parsed.val
               /\ (text # None /\ ~parsed.ok) =>
                    /\ DOMAIN result[i].value.v = {ContentKey}
                    /\ result[i].value.v[ContentKey] = [t |-> "str", v |-> text]

\* C8: with no marker in the model name a successful attempt returns the
\* full message record of the completion, structured result requested or
\* not, content JSON or not.
C8_FullMessageRecord ==
    \A i \in invs : \A k \in 1..Len(outcomes[i]) :
        LET o == outcomes[i][k]
        IN  (o.kind = "response" /\ ~MarkerInRequest(i, k))
            => /\ ReturnedAt(i, k)
               /\ result[i].value.t = "message"
               /\ result[i].value.v.role = o.message.role
               /\ result[i].value.v.content = o.message.content
               /\ result[i].value.v.refusal = o.message.refusal

C8_Witness ==
    \E i \in invs :
        /\ response_model[i]
        /\ Len(outcomes[i]) = 1
        /\ ~MarkerInRequest(i, 1)
        /\ outcomes[i][1].kind = "response"
        /\ JsonLoads(outcomes[i][1].message.content).ok
        /\ result[i].kind = "return"
        /\ result[i].value.t = "message"

KeptRole(m) == m.role \in {"user", "system"}

\* C9: the request of every attempt holds exactly the user and system
\* messages of the conversation, in their order; messages of another role
\* are left out and the request is sent all the same.
C9_RequestKeepsUserAndSystem ==
    \A i \in invs :
        /\ Len(sent[i]) = Len(outcomes[i]) + (IF pc[i] = "Awaiting" THEN 1 ELSE 0)
        /\ \A k \in 1..Len(sent[i]) :
              LET conv == sent[i][k].conv
                  req == sent[i][k].params.messages
              IN  /\ req = SelectSeq(CleanedInPlace(conv), KeptRole)
                  /\ Len(req) = Cardinality({j \in 1..Len(conv) : KeptRole(conv[j])})

C9_Witness ==
    \E i \in invs : \E k \in 1..Len(sent[i]) :
        LET conv == sent[i][k].conv
            req == sent[i][k].params.messages
        IN  /\ Len(conv) = 3
            /\ conv[1].role = "system"
            /\ conv[2].role = "assistant"
            /\ conv[3].role = "user"
            /\ Len(req) = 2
            /\ req[1].role = "system"
            /\ req[2].role = "user"

\* C10: the messages the caller passed keep the content the caller gave
\* them through all attempts; the conversation only grows by appending.
C10_SuppliedMessagesUnchanged ==
    \A i \in invs :
        /\ Len(messages[i]) >= Len(supplied[i])
        /\ \A j \in 1..Len(supplied[i]) : messages[i][j] = supplied[i][j]

\* C12: retrieve_episodes(T, n) on episodes with distinct valid-at
\* timestamps returns at most n episodes, all with valid-at <= T, in
\* increasing valid-at order (oldest to newest).
C12_EpisodesOldestToNewest ==
    epc = "returned" =>
        /\ Len(returned) <= last_n
        /\ \A j \in 1..Len(returned) : returned[j].valid_at <= reference_time
        /\ \A j, k \in 1..Len(returned) :
              j < k => returned[j].valid_at < returned[k].valid_at

\* C13: a second call of build_indices_and_constraints leaves the indices
\* of the first call as they are: the same set, no index twice, no query
\* raising, in whichever order the queries of a call run.
C13_IndexSetupIdempotent ==
    /\ ~index_error
    /\ \A x, y \in indices :
          (x.name = y.name \/ (x.kind = y.kind /\ x.on = y.on /\ x.props = y.props))
              => x = y
    /\ builds >= 1 =>
          /\ indices = first_indices
          /\ indices = {IndexOf(q) : q \in IndexQueries}

C13_Witness ==
    /\ builds = 2
    /\ bpc = "idle"
    /\ Cardinality(indices) = Cardinality(IndexQueries)
    /\ indices = first_indices

\* the step retries: the invocation goes from the transport's answer back
\* to the head of the loop
RetryStep(i) == pc[i] = "Awaiting" /\ pc'[i] = "Attempting"

\* C14: the retry counter stays within 0..MAX_RETRIES, never decreases,
\* grows by exactly one on a retried application-level failure and is left
\* alone by every other step.
C14_RetryCountBoundedMonotone ==
    /\ [](\A i \in invs : retry_count[i] \in 0..MAX_RETRIES)
    /\ [][\A i \in invs :
            IF RetryStep(i)
            THEN /\ retry_count'[i] = retry_count[i] + 1
                 /\ attempts'[i][Len(attempts'[i])].kind = "raise"
                 /\ Classify(attempts'[i][Len(attempts'[i])].error) = "application"
            ELSE retry_count'[i] = retry_count[i]]_vars

C14_Witness ==
    \E i \in invs :
        /\ retry_count[i] = MAX_RETRIES
        /\ pc[i] = "Done"
        /\ result[i].kind = "return"

\* old is a prefix of new: the same messages in the same places, a content
\* differing at most by the sanitizing of line 93
PrefixOf(old, new) ==
    /\ Len(old) <= Len(new)
    /\ \A j \in 1..Len(old) :
          /\ new[j].role = old[j].role
          /\ new[j].content \in {old[j].content, CleanInput(old[j].content)}

\* C15: the conversation list only grows at its end: across every step
\* the list before is a prefix of the list after, so no message is removed,
\* replaced or moved.
C15_ConversationAppendOnly ==
    [][\A i \in invs : PrefixOf(messages[i], messages'[i])]_vars

C15_Witness ==
    \E i \in invs :
        /\ Len(supplied[i]) = 2
        /\ supplied[i][1].role = "assistant"
        /\ Len(messages[i]) = 4
        /\ messages[i][1].role = "assistant"
        /\ messages[i][3].role = "user"
        /\ messages[i][4].role = "user"
        /\ messages[i][3] # messages[i][4]

\* C16: the loop of generate_response is left only from inside its body:
\* the head of the loop is never reached with the condition false, every
\* invocation ends with what its last attempt returned or raised, and the
\* generic error of line 181 is never raised.
C16_FallbackUnreachable ==
    \A i \in invs :
        /\ pc[i] = "Attempting" => retry_count[i] <= MAX_RETRIES
        /\ result[i].error # GenericError
        /\ pc[i] = "Done" =>
              /\ Len(attempts[i]) = Len(sent[i])
              /\ Len(attempts[i]) >= 1
              /\ result[i].kind = attempts[i][Len(attempts[i])].kind
              /\ result[i].error = attempts[i][Len(attempts[i])].error

C16_Witness ==
    \E i \in invs :
        /\ pc[i] = "Done"
        /\ retry_count[i] = MAX_RETRIES
        /\ Len(sent[i]) = MAX_RETRIES + 1
        /\ result[i].kind = "raise"
        /\ Classify(result[i].error) = "application"

\* the terminal states of a call
Succeeded(i) == pc[i] = "Done" /\ result[i].kind = "return"

NonRetryableFailure(i) ==
    /\ pc[i] = "Done"
    /\ result[i].kind = "raise"
    /\ Classify(result[i].error) \in {"non_retryable", "transport"}

ExhaustedFailure(i) ==
    /\ pc[i] = "Done"
    /\ result[i].kind = "raise"
    /\ Classify(result[i].error) = "application"
    /\ retry_count[i] = MAX_RETRIES

TerminalKinds(i) ==
    {k \in {"Succeeded", "NonRetryableFailure", "ExhaustedFailure"} :
        \/ k = "Succeeded" /\ Succeeded(i)
        \/ k = "NonRetryableFailure" /\ NonRetryableFailure(i)
        \/ k = "ExhaustedFailure" /\ ExhaustedFailure(i)}

\* the last attempt failed with an application-level error and a retry was
\* granted for it
RetryableFailure(i) ==
    /\ Len(attempts[i]) >= 1
    /\ Len(attempts[i]) = retry_count[i]
    /\ Len(sent[i]) = Len(attempts[i])

\* C17: with every transport call answered, every call of generate_response
\* ends, in exactly one of Succeeded, NonRetryableFailure and
\* ExhaustedFailure; a retryable failure is never the end of a call and is
\* always followed by a new attempt.
C17_EveryCallTerminates ==
    /\ <>(\A i \in invs : pc[i] = "Done")
    /\ [](\A i \in invs :
            /\ pc[i] \in {"Attempting", "Awaiting", "Done"}
            /\ pc[i] = "Done" => Cardinality(TerminalKinds(i)) = 1
            /\ RetryableFailure(i) => pc[i] = "Attempting")

C17_Witness ==
    \E i \in invs :
        /\ ExhaustedFailure(i)
        /\ Len(sent[i]) = MAX_RETRIES + 1
        /\ outcomes[i][1] # outcomes[i][2]

\* C18: with self.model unset (None or empty) every request carries the
\* default model name; the name searched for the marker is the name sent,
\* so with a structured result requested the completion text is decoded
\* manually.
C18_UnsetModelUsesDefault ==
    \A i \in invs : \A k \in 1..Len(outcomes[i]) :
        LET o == outcomes[i][k]
            text == o.message.content
            parsed == JsonLoads(text)
            manual == AttemptOf(i, k).value.t # "message"
        IN  /\ ~Truthy(model[i]) =>
                /\ sent[i][k].params.model = DEFAULT_MODEL
                /\ MarkerInRequest(i, k)
            /\ (o.kind = "response" /\ text # None /\ response_model[i]) =>
                /\ manual <=> MarkerInRequest(i, k)
                /\ ~Truthy(model[i]) =>
                     /\ ReturnedAt(i, k)
                     /\ parsed.ok => result[i].value = parsed.val
                     /\ ~parsed.ok =>
                          /\ result[i].value.t = "dict"
                          /\ result[i].value.v[ContentKey] = [t |-> "str", v |-> text]

C18_Witness ==
    \E i \in invs :
        /\ model[i] = None
        /\ response_model[i]
        /\ Len(outcomes[i]) = 1
        /\ outcomes[i][1].kind = "response"
        /\ outcomes[i][1].message.content = <<"{", "\"", "a", "\"", ":", "1", "}">>
        /\ sent[i][1].params.model = DEFAULT_MODEL
        /\ result[i].kind = "return"
        /\ result[i].value.t = "dict"

\* the corrective message for the failure of attempt j, as the request
\* of a later attempt carries it
CorrectiveInRequest(i, j) ==
    [role |-> "user", content |-> CleanInput(ErrorContext(AttemptOf(i, j).error))]

\* C19: the request of attempt k+1 carries the messages of the request of
\* attempt 1 followed by the k corrective messages, all of role user, in the
\* order of the failures: one message more than the request before it.
C19_CorrectiveMessagesInRequest ==
    \A i \in invs : \A k \in 2..Len(sent[i]) :
        LET first == sent[i][1].params.messages
            now == sent[i][k].params.messages
        IN  /\ Len(now) = Len(sent[i][k - 1].params.messages) + 1
            /\ Len(now) = Len(first) + (k - 1)
            /\ \A j \in 1..Len(first) : now[j] = first[j]
            /\ \A j \in 1..(k - 1) : now[Len(first) + j] = CorrectiveInRequest(i, j)

C19_Witness ==
    \E i \in invs :
        /\ Len(sent[i]) = 3
        /\ Len(supplied[i]) = 2
        /\ supplied[i][2].role = "assistant"
        /\ Len(sent[i][1].params.messages) = 1
        /\ Len(sent[i][3].params.messages) = 3
        /\ AttemptOf(i, 1).error.class # AttemptOf(i, 2).error.class

\* C20: when a call has ended after k retries, whatever its outcome, the
\* list the caller passed has its initial length + k, the k corrective
\* messages at its end; after exhaustion that is initial length + MAX_RETRIES.
C20_CallerListKeepsCorrectives ==
    \A i \in invs :
        pc[i] = "Done" =>
            LET k == retry_count[i]
                n == Len(supplied[i])
            IN  /\ k = Len(outcomes[i]) - 1
                /\ Len(messages[i]) = n + k
                /\ \A j \in 1..n : messages[i][j].role = supplied[i][j].role
                /\ \A j \in 1..k : messages[i][n + j] = CorrectiveInRequest(i, j)
                /\ ExhaustedFailure(i) => Len(messages[i]) = n + MAX_RETRIES

C20_Witness ==
    \E i \in invs :
        /\ Succeeded(i)
        /\ retry_count[i] = 1
        /\ Len(supplied[i]) = 1
        /\ Len(messages[i]) = 2
        /\ messages[i][2].role = "user"

\* What a call running alone has done, from its own inputs and the answers
\* to its own transport calls

\* how attempt k ends
SoloAttempt(i, k) == AttemptResult(outcomes[i][k], model[i], response_model[i])

\* the number of failures retried so far
SoloRetries(i) == IF pc[i] = "Done" THEN Len(outcomes[i]) - 1 ELSE Len(outcomes[i])

\* the list of messages: the supplied ones and a corrective message per
\* retry; every message an attempt has been made on since has been sanitized
SoloMessages(i) ==
    LET k == SoloRetries(i)
        sanitized == IF pc[i] = "Attempting" THEN k - 1 ELSE k
        head == IF pc[i] = "Attempting" /\ k = 0
                THEN supplied[i] ELSE CleanedInPlace(supplied[i])
        tail == [j \in 1..k |->
                    LET c == CorrectiveMessage(SoloAttempt(i, j).error)
                    IN  IF j <= sanitized
                        THEN [role |-> c.role, content |-> CleanInput(c.content)]
                        ELSE c]
    IN  head \o tail

\* the request of attempt k
SoloRequest(i, k) ==
    CompletionParams(model[i],
        supplied[i] \o [j \in 1..(k - 1) |-> CorrectiveMessage(SoloAttempt(i, j).error)])

SoloResult(i) ==
    IF pc[i] # "Done" THEN Pending
    ELSE LET r == SoloAttempt(i, Len(outcomes[i]))
         IN  IF r.kind = "return" THEN r ELSE Raised(r.error)

\* the step touches the state of call i only
OnlyTouches(i) ==
    \A j \in invs \ {i} :
        /\ retry_count'[j] = retry_count[j]
        /\ messages'[j] = messages[j]
        /\ sent'[j] = sent[j]
        /\ outcomes'[j] = outcomes[j]
        /\ last_error'[j] = last_error[j]
        /\ result'[j] = result[j]
        /\ pc'[j] = pc[j]

AsIfAlone ==
    \A i \in invs :
        /\ retry_count[i] = SoloRetries(i)
        /\ Len(sent[i]) = Len(outcomes[i]) + (IF pc[i] = "Awaiting" THEN 1 ELSE 0)
        /\ \A k \in 1..Len(sent[i]) : sent[i][k].params = SoloRequest(i, k)
        /\ messages[i] = SoloMessages(i)
        /\ result[i].kind = SoloResult(i).kind
        /\ result[i] = SoloResult(i)

\* C11: in every interleaving of two calls, the retry counter, the requests
\* sent, the list of messages and the outcome of each call are what the
\* call's own inputs and the answers to its own transport calls determine,
\* and every step changes the state of one call only.
C11_ConcurrentCallsIndependent ==
    /\ []AsIfAlone
    /\ [][\E i \in invs : OnlyTouches(i)]_vars

C11_Witness ==
    /\ invs = {1, 2}
    /\ pc[1] = "Done" /\ pc[2] = "Done"
    /\ result[1].kind = "return"
    /\ retry_count[1] = 0
    /\ result[2].kind = "raise"
    /\ retry_count[2] = MAX_RETRIES
    /\ Len(messages[1]) = 1
    /\ Len(messages[2]) = 1 + MAX_RETRIES

====
